---- MODULE Spec2Model ----
(***************************************************************************)
(* Model of src/macos.rs: get_selected_text, the selector that chooses     *)
(* between file-path extraction, the accessibility read and the clipboard  *)
(* script, and the LRU cache GET_SELECTED_TEXT_METHOD that remembers which *)
(* method worked for which application.                                    *)
(*                                                                         *)
(* Strings are sequences of characters, so that trim() and split("\n")     *)
(* are computed and not assumed.                                           *)
(***************************************************************************)
EXTENDS Integers, Sequences, FiniteSets, TLC

\* ---------------------------------------------------------------- bounds
\* longest raw string (subprocess stdout, accessibility text) drawn as input
MaxLen == 3
\* longest raw string drawn as input when several threads call concurrently
MaxLenConc == 1
\* threads that may call get_selected_text
NumThreads == 2

\* ------------------------------------------------------- program constants
\* LruCache::new(NonZeroUsize::new(100).unwrap())
CacheCap == 100
\* the tags stored in the cache: cache.put(app_name, 0) / cache.put(app_name, 1)
PreferAccessibility == 0
PreferClipboardScript == 1

Threads == 1..NumThreads
MainThread == 1

\* application names the window inspector may report
Apps == {"Finder", "Empty Window", "Notes"}

\* ----------------------------------------------------------------- strings
NL == "\n"
Char == {"a", NL}
IsWhitespace(c) == c = NL

StringsOfLen(n) == [1..n -> Char]
Strings(L) == UNION {StringsOfLen(n) : n \in 0..L}

RECURSIVE TrimStart(_)
TrimStart(s) ==
    IF s = <<>> THEN s
    ELSE IF IsWhitespace(Head(s)) THEN TrimStart(Tail(s)) ELSE s

RECURSIVE TrimEnd(_)
TrimEnd(s) ==
    IF s = <<>> THEN s
    ELSE IF IsWhitespace(s[Len(s)]) THEN TrimEnd(SubSeq(s, 1, Len(s) - 1)) ELSE s

\* str::trim
Trim(s) == TrimEnd(TrimStart(s))

\* text.split("\n").map(|t| t.to_owned()).collect::<Vec<String>>()
\* acc is the element being read; an empty input yields one empty element
RECURSIVE SplitFrom(_, _)
SplitFrom(s, acc) ==
    IF s = <<>> THEN <<acc>>
    ELSE IF Head(s) = NL THEN <<acc>> \o SplitFrom(Tail(s), <<>>)
    ELSE SplitFrom(Tail(s), Append(acc, Head(s)))

\* faulty variant: the split filters out empty elements
SplitLines_DropEmpty(s) == SelectSeq(SplitFrom(s, <<>>), LAMBDA e : e # <<>>)

\* faulty variant: the element being read is not cleared at a newline
RECURSIVE SplitFrom_NoReset(_, _)
SplitFrom_NoReset(s, acc) ==
    IF s = <<>> THEN <<acc>>
    ELSE IF Head(s) = NL THEN <<acc>> \o SplitFrom_NoReset(Tail(s), acc)
    ELSE SplitFrom_NoReset(Tail(s), Append(acc, Head(s)))

SplitLines_NoReset(s) == SplitFrom_NoReset(s, <<>>)

SplitLines(s) == SplitFrom(s, <<>>)

\* String::is_empty
is_empty(s) == Len(s) = 0

\* ----------------------------------------------------------------- results
Ok(v) == [tag |-> "Ok", val |-> v]
Err(src, kind) == [tag |-> "Err", err |-> [src |-> src, kind |-> kind]]
Pending == [tag |-> "None"]

IsOk(r) == r.tag = "Ok"
IsErr(r) == r.tag = "Err"

\* ------------------------------------------------------ window inspector
\* get_active_window(): Ok(window) with an app_name, or Err
WindowOutcomes == {[ok |-> TRUE, app_name |-> a] : a \in Apps} \cup {[ok |-> FALSE, app_name |-> ""]}

get_window_meta(w) == IF w.ok THEN w.app_name ELSE "Empty Window"

\* ------------------------------------------------------- accessibility read
\* the focused element may be absent; if present, its selected-text attribute
\* may be absent
AxOutcomes(L) ==
    {[focused |-> FALSE, has_text |-> FALSE, text |-> <<>>],
     [focused |-> TRUE, has_text |-> FALSE, text |-> <<>>]}
    \cup {[focused |-> TRUE, has_text |-> TRUE, text |-> s] : s \in Strings(L)}

get_selected_text_by_ax(o) ==
    IF ~o.focused THEN Err("ax", "NotFound: No selected element")
    ELSE IF ~o.has_text THEN Err("ax", "NotFound: No selected text")
    ELSE Ok(o.text)

\* ------------------------------------------------------ osascript subprocess
\* Command::output() may fail to spawn; otherwise there is an exit status,
\* a stdout that may or may not be valid UTF-8, and a stderr
ProcOutcomes(L) ==
    {[spawned |-> FALSE, success |-> FALSE, utf8 |-> TRUE, stdout |-> <<>>],
     [spawned |-> TRUE, success |-> FALSE, utf8 |-> TRUE, stdout |-> <<>>],
     [spawned |-> TRUE, success |-> TRUE, utf8 |-> FALSE, stdout |-> <<>>]}
    \cup {[spawned |-> TRUE, success |-> TRUE, utf8 |-> TRUE, stdout |-> s] : s \in Strings(L)}

RunScript(src, o) ==
    IF ~o.spawned THEN Err(src, "Io")
    ELSE IF o.success
         THEN IF ~o.utf8 THEN Err(src, "FromUtf8") ELSE Ok(Trim(o.stdout))
         ELSE Err(src, "Stderr")

get_selected_text_by_clipboard_using_applescript(o) == RunScript("clip", o)

get_selected_file_paths_by_clipboard_using_applescript(for_empty_window, o) ==
    RunScript(IF for_empty_window THEN "file_empty_window" ELSE "file", o)

\* ------------------------------------------------------------- LRU cache
\* hit before line 63 has run, and Option::None from cache.get
Unset == -2
Miss == -1

\* the entries of an LruCache, most recently used first
LruKeys(c) == {c[i].k : i \in 1..Len(c)}
LruIndex(c, k) == CHOOSE i \in 1..Len(c) : c[i].k = k
LruRemove(c, i) == SubSeq(c, 1, i - 1) \o SubSeq(c, i + 1, Len(c))

\* LruCache::peek, the value without touching recency
LruPeek(c, k) == IF k \in LruKeys(c) THEN c[LruIndex(c, k)].v ELSE Miss

\* faulty variant: a lookup does not refresh recency (peek in place of get)
LruGet_NoRefresh(c, k) == c

\* LruCache::get: the entries afterwards (a hit moves the entry to the front)
LruGet(c, k) ==
    IF k \in LruKeys(c)
    THEN <<c[LruIndex(c, k)]>> \o LruRemove(c, LruIndex(c, k))
    ELSE c

\* faulty variant: eviction starts one entry before the cache is full
LruPut_EvictsEarly(c, k, v, cap) ==
    IF k \in LruKeys(c)
    THEN <<[k |-> k, v |-> v]>> \o LruRemove(c, LruIndex(c, k))
    ELSE IF Len(c) >= cap - 1
         THEN <<[k |-> k, v |-> v]>> \o SubSeq(c, 1, Len(c) - 1)
         ELSE <<[k |-> k, v |-> v]>> \o c

\* faulty variant: a full cache grows instead of evicting
LruPut_NoEvict(c, k, v, cap) ==
    IF k \in LruKeys(c)
    THEN <<[k |-> k, v |-> v]>> \o LruRemove(c, LruIndex(c, k))
    ELSE <<[k |-> k, v |-> v]>> \o c

\* LruCache::put: update and move to the front, or insert at the front,
\* evicting the least recently used entry when the cache is full
LruPut(c, k, v, cap) ==
    IF k \in LruKeys(c)
    THEN <<[k |-> k, v |-> v]>> \o LruRemove(c, LruIndex(c, k))
    ELSE IF Len(c) >= cap
         THEN <<[k |-> k, v |-> v]>> \o SubSeq(c, 1, cap - 1)
         ELSE <<[k |-> k, v |-> v]>> \o c

\* ------------------------------------------------------------------ state
VARIABLES
    GET_SELECTED_TEXT_METHOD,  \* the static Mutex's content: Option<LruCache<String, u8>>
    mutex,                     \* 0 when the Mutex is free, else the thread holding the guard
    pc,                        \* each thread's position in get_selected_text
    app_name,                  \* each call's app_name local
    hit,                       \* each call's result of cache.get(&app_name)
    calls,                     \* the extraction methods each call has invoked, with their results
    ret                        \* each call's return value

vars == <<GET_SELECTED_TEXT_METHOD, mutex, pc, app_name, hit, calls, ret>>

None == [is_some |-> FALSE, lru |-> <<>>]
Some(c) == [is_some |-> TRUE, lru |-> c]

SelectedText(is_file_paths, app, text) ==
    [is_file_paths |-> is_file_paths, app_name |-> app, text |-> text]

Init ==
    /\ GET_SELECTED_TEXT_METHOD = None
    /\ mutex = 0
    /\ pc = [t \in Threads |-> "idle"]
    /\ app_name = [t \in Threads |-> ""]
    /\ hit = [t \in Threads |-> Unset]
    /\ calls = [t \in Threads |-> <<>>]
    /\ ret = [t \in Threads |-> Pending]

Goto(t, label) == pc' = [pc EXCEPT ![t] = label]

Invoked(t, method, r) == calls' = [calls EXCEPT ![t] = Append(@, [m |-> method, r |-> r])]

\* a return statement: the value is handed to the caller and the guard taken
\* at line 35 is dropped
Return(t, r) ==
    /\ ret' = [ret EXCEPT ![t] = r]
    /\ mutex' = 0
    /\ Goto(t, "done")

\* faulty variant: the sentinel context is not sent to file-path extraction
InFileBranch_FinderOnly(app) == app = "Finder"

\* line 41: app_name == "Finder" || no_active_app
InFileBranch(app) == app = "Finder" \/ app = "Empty Window"

\* faulty variant: an unknown application goes straight to the clipboard script
AfterLookup_SkipAx(h) ==
    IF h = Miss THEN "l84"
    ELSE IF h = PreferAccessibility THEN "l65"
    ELSE "l72"

\* faulty variant: the tag is not tested, every cached application tries accessibility
AfterLookup_AlwaysAx(h) ==
    IF h = Miss THEN "l76" ELSE "l65"

\* lines 63-64 and 76: where the call goes after cache.get(&app_name)
AfterLookup(h) ==
    IF h = Miss THEN "l76"
    ELSE IF h = PreferAccessibility THEN "l65"
    ELSE "l72"

\* a thread calls get_selected_text
Call(t) ==
    /\ pc[t] \in {"idle", "done"}
    /\ Goto(t, "l31")
    /\ app_name' = [app_name EXCEPT ![t] = ""]
    /\ hit' = [hit EXCEPT ![t] = Unset]
    /\ calls' = [calls EXCEPT ![t] = <<>>]
    /\ ret' = [ret EXCEPT ![t] = Pending]
    /\ UNCHANGED <<GET_SELECTED_TEXT_METHOD, mutex>>

\* faulty variant: the guard of the is_none() check lives on into the block
CheckNone_HoldsGuard(t) ==
    /\ pc[t] = "l31"
    /\ mutex = 0
    /\ mutex' = IF GET_SELECTED_TEXT_METHOD.is_some THEN 0 ELSE t
    /\ Goto(t, IF GET_SELECTED_TEXT_METHOD.is_some THEN "l35" ELSE "l32")
    /\ UNCHANGED <<GET_SELECTED_TEXT_METHOD, app_name, hit, calls, ret>>

\* line 31: GET_SELECTED_TEXT_METHOD.lock().is_none(); the guard is a temporary
\* of the condition and is dropped before the block is entered
CheckNone(t) ==
    /\ pc[t] = "l31"
    /\ mutex = 0
    /\ Goto(t, IF GET_SELECTED_TEXT_METHOD.is_some THEN "l35" ELSE "l32")
    /\ UNCHANGED <<GET_SELECTED_TEXT_METHOD, mutex, app_name, hit, calls, ret>>

\* lines 32-33: *GET_SELECTED_TEXT_METHOD.lock() = Some(LruCache::new(100))
InitCache(t) ==
    /\ pc[t] = "l32"
    /\ mutex = 0
    /\ GET_SELECTED_TEXT_METHOD' = Some(<<>>)
    /\ Goto(t, "l35")
    /\ UNCHANGED <<mutex, app_name, hit, calls, ret>>

\* faulty variant: the guard of line 35 is dropped at once, not held
Lock_NoGuard(t) ==
    /\ pc[t] = "l35"
    /\ mutex = 0
    /\ Goto(t, "l38")
    /\ UNCHANGED <<GET_SELECTED_TEXT_METHOD, mutex, app_name, hit, calls, ret>>

\* lines 35-36: the guard held until the call returns
Lock(t) ==
    /\ pc[t] = "l35"
    /\ mutex = 0
    /\ mutex' = t
    /\ Goto(t, "l38")
    /\ UNCHANGED <<GET_SELECTED_TEXT_METHOD, app_name, hit, calls, ret>>

\* line 38: let (app_name, window_title) = get_window_meta()
GetWindowMeta(t) ==
    /\ pc[t] = "l38"
    /\ \E w \in WindowOutcomes :
          app_name' = [app_name EXCEPT ![t] = get_window_meta(w)]
    /\ Goto(t, "l41")
    /\ UNCHANGED <<GET_SELECTED_TEXT_METHOD, mutex, hit, calls, ret>>

\* line 41, condition false: straight to the text branch
SkipFilePaths(t) ==
    /\ pc[t] = "l41"
    /\ ~InFileBranch(app_name[t])
    /\ Goto(t, "l63")
    /\ UNCHANGED <<GET_SELECTED_TEXT_METHOD, mutex, app_name, hit, calls, ret>>

\* faulty variant: the file-path extraction error is returned with `?`
FilePaths_Propagates(t, L) ==
    /\ pc[t] = "l41"
    /\ InFileBranch(app_name[t])
    /\ \E o \in ProcOutcomes(L) :
          LET no_active_app == app_name[t] = "Empty Window"
              r == get_selected_file_paths_by_clipboard_using_applescript(no_active_app, o)
          IN  /\ Invoked(t, "file", r)
              /\ IF IsOk(r)
                 THEN Return(t, Ok(SelectedText(TRUE, app_name[t], SplitLines(r.val))))
                 ELSE Return(t, r)
    /\ UNCHANGED <<GET_SELECTED_TEXT_METHOD, app_name, hit>>

\* lines 41-55: file-path extraction; Ok returns, Err falls through
FilePaths(t, L) ==
    /\ pc[t] = "l41"
    /\ InFileBranch(app_name[t])
    /\ \E o \in ProcOutcomes(L) :
          LET no_active_app == app_name[t] = "Empty Window"
              r == get_selected_file_paths_by_clipboard_using_applescript(no_active_app, o)
          IN  /\ Invoked(t, "file", r)
              /\ IF IsOk(r)
                 THEN Return(t, Ok(SelectedText(TRUE, app_name[t], SplitLines(r.val))))
                 ELSE Goto(t, "l63") /\ UNCHANGED <<mutex, ret>>
    /\ UNCHANGED <<GET_SELECTED_TEXT_METHOD, app_name, hit>>

\* line 63: if let Some(text) = cache.get(&app_name)
Lookup(t) ==
    /\ pc[t] = "l63"
    /\ LET c == GET_SELECTED_TEXT_METHOD.lru
           h == LruPeek(c, app_name[t])
       IN  /\ hit' = [hit EXCEPT ![t] = h]
           /\ GET_SELECTED_TEXT_METHOD' = Some(LruGet(c, app_name[t]))
           /\ Goto(t, AfterLookup(h))
    /\ UNCHANGED <<mutex, app_name, calls, ret>>

\* faulty variant: the return after a non-empty accessibility text is missing
AxCached_NoReturn(t, L) ==
    /\ pc[t] = "l65"
    /\ \E o \in AxOutcomes(L) :
          LET r == get_selected_text_by_ax(o)
          IN  /\ Invoked(t, "ax", r)
              /\ IF IsErr(r)
                 THEN Return(t, r) /\ UNCHANGED GET_SELECTED_TEXT_METHOD
                 ELSE /\ GET_SELECTED_TEXT_METHOD' =
                             IF ~is_empty(r.val)
                             THEN Some(LruPut(GET_SELECTED_TEXT_METHOD.lru, app_name[t],
                                              PreferAccessibility, CacheCap))
                             ELSE GET_SELECTED_TEXT_METHOD
                      /\ Goto(t, "l72")
                      /\ UNCHANGED <<mutex, ret>>
    /\ UNCHANGED <<app_name, hit>>

\* lines 65-70: the cached tag is 0: accessibility, `?` on its error
AxCached(t, L) ==
    /\ pc[t] = "l65"
    /\ \E o \in AxOutcomes(L) :
          LET r == get_selected_text_by_ax(o)
          IN  /\ Invoked(t, "ax", r)
              /\ IF IsErr(r)
                 THEN Return(t, r) /\ UNCHANGED GET_SELECTED_TEXT_METHOD
                 ELSE IF ~is_empty(r.val)
                 THEN /\ GET_SELECTED_TEXT_METHOD' =
                             Some(LruPut(GET_SELECTED_TEXT_METHOD.lru, app_name[t],
                                         PreferAccessibility, CacheCap))
                      /\ Return(t, Ok(SelectedText(FALSE, app_name[t], <<r.val>>)))
                 ELSE /\ Goto(t, "l72")
                      /\ UNCHANGED <<GET_SELECTED_TEXT_METHOD, mutex, ret>>
    /\ UNCHANGED <<app_name, hit>>

\* faulty variant: the cached branch records the clipboard script when it yields text
ClipCached_Records(t, L) ==
    /\ pc[t] = "l72"
    /\ \E o \in ProcOutcomes(L) :
          LET r == get_selected_text_by_clipboard_using_applescript(o)
          IN  /\ Invoked(t, "clip", r)
              /\ IF IsErr(r)
                 THEN Return(t, r) /\ UNCHANGED GET_SELECTED_TEXT_METHOD
                 ELSE /\ GET_SELECTED_TEXT_METHOD' =
                             IF ~is_empty(r.val)
                             THEN Some(LruPut(GET_SELECTED_TEXT_METHOD.lru, app_name[t],
                                              PreferClipboardScript, CacheCap))
                             ELSE GET_SELECTED_TEXT_METHOD
                      /\ Return(t, Ok(SelectedText(FALSE, app_name[t], <<r.val>>)))
    /\ UNCHANGED <<app_name, hit>>

\* lines 72-74: clipboard script in the cached branch, `?` on its error
ClipCached(t, L) ==
    /\ pc[t] = "l72"
    /\ \E o \in ProcOutcomes(L) :
          LET r == get_selected_text_by_clipboard_using_applescript(o)
          IN  /\ Invoked(t, "clip", r)
              /\ IF IsErr(r)
                 THEN Return(t, r)
                 ELSE Return(t, Ok(SelectedText(FALSE, app_name[t], <<r.val>>)))
    /\ UNCHANGED <<GET_SELECTED_TEXT_METHOD, app_name, hit>>

\* faulty variant: the accessibility tag is recorded without testing the text
AxUnknown_AlwaysPut(t, L) ==
    /\ pc[t] = "l76"
    /\ \E o \in AxOutcomes(L) :
          LET r == get_selected_text_by_ax(o)
          IN  /\ Invoked(t, "ax", r)
              /\ IF IsOk(r)
                 THEN /\ GET_SELECTED_TEXT_METHOD' =
                             Some(LruPut(GET_SELECTED_TEXT_METHOD.lru, app_name[t],
                                         PreferAccessibility, CacheCap))
                      /\ Return(t, Ok(SelectedText(FALSE, app_name[t], <<r.val>>)))
                 ELSE /\ Goto(t, "l84")
                      /\ UNCHANGED <<GET_SELECTED_TEXT_METHOD, mutex, ret>>
    /\ UNCHANGED <<app_name, hit>>

\* faulty variant: an empty accessibility text leaves selected_text.text as vec![]
AxUnknown_EmptyVec(t, L) ==
    /\ pc[t] = "l76"
    /\ \E o \in AxOutcomes(L) :
          LET r == get_selected_text_by_ax(o)
          IN  /\ Invoked(t, "ax", r)
              /\ IF IsOk(r)
                 THEN /\ GET_SELECTED_TEXT_METHOD' =
                             IF ~is_empty(r.val)
                             THEN Some(LruPut(GET_SELECTED_TEXT_METHOD.lru, app_name[t],
                                              PreferAccessibility, CacheCap))
                             ELSE GET_SELECTED_TEXT_METHOD
                      /\ Return(t, Ok(SelectedText(FALSE, app_name[t],
                                                   IF is_empty(r.val) THEN <<>> ELSE <<r.val>>)))
                 ELSE /\ Goto(t, "l84")
                      /\ UNCHANGED <<GET_SELECTED_TEXT_METHOD, mutex, ret>>
    /\ UNCHANGED <<app_name, hit>>

\* lines 76-83: no entry: accessibility; Ok returns, Err goes on to line 84
AxUnknown(t, L) ==
    /\ pc[t] = "l76"
    /\ \E o \in AxOutcomes(L) :
          LET r == get_selected_text_by_ax(o)
          IN  /\ Invoked(t, "ax", r)
              /\ IF IsOk(r)
                 THEN /\ GET_SELECTED_TEXT_METHOD' =
                             IF ~is_empty(r.val)
                             THEN Some(LruPut(GET_SELECTED_TEXT_METHOD.lru, app_name[t],
                                              PreferAccessibility, CacheCap))
                             ELSE GET_SELECTED_TEXT_METHOD
                      /\ Return(t, Ok(SelectedText(FALSE, app_name[t], <<r.val>>)))
                 ELSE /\ Goto(t, "l84")
                      /\ UNCHANGED <<GET_SELECTED_TEXT_METHOD, mutex, ret>>
    /\ UNCHANGED <<app_name, hit>>

\* faulty variant: the clipboard script's success is recorded under the accessibility tag
ClipUnknown_WrongTag(t, L) ==
    /\ pc[t] = "l84"
    /\ \E o \in ProcOutcomes(L) :
          LET r == get_selected_text_by_clipboard_using_applescript(o)
          IN  /\ Invoked(t, "clip", r)
              /\ IF IsOk(r)
                 THEN /\ GET_SELECTED_TEXT_METHOD' =
                             IF ~is_empty(r.val)
                             THEN Some(LruPut(GET_SELECTED_TEXT_METHOD.lru, app_name[t],
                                              PreferAccessibility, CacheCap))
                             ELSE GET_SELECTED_TEXT_METHOD
                      /\ Return(t, Ok(SelectedText(FALSE, app_name[t], <<r.val>>)))
                 ELSE Return(t, r) /\ UNCHANGED GET_SELECTED_TEXT_METHOD
    /\ UNCHANGED <<app_name, hit>>

\* lines 84-93: no entry and accessibility failed: clipboard script
ClipUnknown(t, L) ==
    /\ pc[t] = "l84"
    /\ \E o \in ProcOutcomes(L) :
          LET r == get_selected_text_by_clipboard_using_applescript(o)
          IN  /\ Invoked(t, "clip", r)
              /\ IF IsOk(r)
                 THEN /\ GET_SELECTED_TEXT_METHOD' =
                             IF ~is_empty(r.val)
                             THEN Some(LruPut(GET_SELECTED_TEXT_METHOD.lru, app_name[t],
                                              PreferClipboardScript, CacheCap))
                             ELSE GET_SELECTED_TEXT_METHOD
                      /\ Return(t, Ok(SelectedText(FALSE, app_name[t], <<r.val>>)))
                 ELSE Return(t, r) /\ UNCHANGED GET_SELECTED_TEXT_METHOD
    /\ UNCHANGED <<app_name, hit>>

\* one step of thread t's call, with inputs of length at most L
Step(t, L) ==
    \/ Call(t)
    \/ CheckNone(t)
    \/ InitCache(t)
    \/ Lock(t)
    \/ GetWindowMeta(t)
    \/ SkipFilePaths(t)
    \/ FilePaths(t, L)
    \/ Lookup(t)
    \/ AxCached(t, L)
    \/ ClipCached(t, L)
    \/ AxUnknown(t, L)
    \/ ClipUnknown(t, L)

\* one caller, calling get_selected_text again and again
Next == Step(MainThread, MaxLen)

Spec == Init /\ [][Next]_vars

\* ------------------------------------------------------ concurrent callers
\* the collaborators' outcomes when several threads call: the window inspector
\* reports an application, accessibility and the subprocess each fail in one
\* way, and accessibility texts carry no surrounding whitespace
ConcEnv(t) ==
    /\ app_name[t] # "Empty Window"
    /\ \A i \in 1..Len(calls[t]) :
          LET r == calls[t][i].r
          IN  /\ IsErr(r) => r.err.kind \in {"Io", "NotFound: No selected element"}
              /\ (calls[t][i].m = "ax" /\ IsOk(r)) => r.val = Trim(r.val)

StepConc(t) ==
    \/ Call(t)
    \/ CheckNone(t)
    \/ InitCache(t)
    \/ Lock(t)
    \/ GetWindowMeta(t) /\ ConcEnv(t)'
    \/ SkipFilePaths(t)
    \/ FilePaths(t, MaxLenConc) /\ ConcEnv(t)'
    \/ Lookup(t)
    \/ AxCached(t, MaxLenConc) /\ ConcEnv(t)'
    \/ ClipCached(t, MaxLenConc) /\ ConcEnv(t)'
    \/ AxUnknown(t, MaxLenConc) /\ ConcEnv(t)'
    \/ ClipUnknown(t, MaxLenConc) /\ ConcEnv(t)'

\* every thread calls get_selected_text again and again
NextConc == \E t \in Threads : StepConc(t)

SpecConc == Init /\ [][NextConc]_vars

\* the steps that wait for the mutex (lines 31, 33 and 35)
Acquire(t) == CheckNone(t) \/ InitCache(t) \/ Lock(t)

\* the steps of a call between two acquisitions or under the guard
Proceed(t) ==
    \/ GetWindowMeta(t) /\ ConcEnv(t)'
    \/ SkipFilePaths(t)
    \/ FilePaths(t, MaxLenConc) /\ ConcEnv(t)'
    \/ Lookup(t)
    \/ AxCached(t, MaxLenConc) /\ ConcEnv(t)'
    \/ ClipCached(t, MaxLenConc) /\ ConcEnv(t)'
    \/ AxUnknown(t, MaxLenConc) /\ ConcEnv(t)'
    \/ ClipUnknown(t, MaxLenConc) /\ ConcEnv(t)'

\* fair scheduling: a running thread takes its next step, every collaborator
\* call returns, and a thread waiting for the mutex gets it if it is freed
\* again and again; a caller is free to stop calling
SpecConcFair ==
    /\ Init
    /\ [][NextConc]_vars
    /\ \A t \in Threads : WF_vars(Proceed(t)) /\ SF_vars(Acquire(t))

\* ------------------------------------------------- a cache that is nearly full
\* the entries after "Notes" was recorded with tag v and n - 1 other
\* applications, named "1", "2", ..., were recorded after it ("1" last)
Prefilled(n, v) ==
    [i \in 1..n |-> IF i = n THEN [k |-> "Notes", v |-> v]
                             ELSE [k |-> ToString(i), v |-> i % 2]]

\* the cache before its first use, or holding CacheCap - 1 or CacheCap entries
InitFull ==
    /\ GET_SELECTED_TEXT_METHOD \in
           {None} \cup {Some(Prefilled(n, v)) : n \in {CacheCap - 1, CacheCap},
                                                v \in {PreferAccessibility, PreferClipboardScript}}
    /\ mutex = 0
    /\ pc = [t \in Threads |-> "idle"]
    /\ app_name = [t \in Threads |-> ""]
    /\ hit = [t \in Threads |-> Unset]
    /\ calls = [t \in Threads |-> <<>>]
    /\ ret = [t \in Threads |-> Pending]

SpecFull == InitFull /\ [][Next]_vars

\* ------------------------------------------------------------ properties
Last(q) == q[Len(q)]

\* the results a call has obtained from one method, in order
ResultsOf(t, method) == SelectSeq(calls[t], LAMBDA c : c.m = method)
Invokes(t, method) == ResultsOf(t, method) # <<>>

\* positions of a method in a call's sequence of invocations
PositionsOf(q, method) == {i \in 1..Len(q) : q[i].m = method}

\* what a text method's result looks like once it is the call's result
AsCallResult(app, r) ==
    IF IsErr(r) THEN r ELSE Ok(SelectedText(FALSE, app, <<r.val>>))

TagOf(opt, app) == LruPeek(opt.lru, app)

\* C1: for an application with no cache entry, when the accessibility method
\* returns empty text or an error, the clipboard script is invoked in the same
\* call and the call's result is the clipboard script's outcome.
C1_FallbackOnEmptyOrError ==
    \A t \in Threads :
        (/\ pc[t] = "done"
         /\ hit[t] = Miss
         /\ Invokes(t, "ax")
         /\ LET ax == ResultsOf(t, "ax")[1].r
            IN  IsErr(ax) \/ ax.val = <<>>)
        => /\ Invokes(t, "clip")
           /\ ret[t] = AsCallResult(app_name[t], Last(calls[t]).r)
           /\ Last(calls[t]).m = "clip"

\* C2: an error returned by get_selected_text is the clipboard script's error;
\* an error of the accessibility method is never the call's result.
C2_OnlyLastMethodErrorReturned ==
    \A t \in Threads :
        (pc[t] = "done" /\ IsErr(ret[t])) => ret[t].err.src = "clip"

\* C3: for an application with no cache entry, a call that reaches the text
\* branch invokes accessibility first, and the clipboard script only after
\* accessibility has returned in that call.
C3_AxBeforeClipboardWhenUnknown ==
    \A t \in Threads :
        hit[t] = Miss =>
            /\ \A i \in PositionsOf(calls[t], "clip") :
                   \E j \in PositionsOf(calls[t], "ax") : j < i
            /\ pc[t] \in {"l84", "done"} => Invokes(t, "ax")

C3_Witness ==
    \E t \in Threads :
        /\ pc[t] = "done"
        /\ hit[t] = Miss
        /\ Len(calls[t]) >= 2
        /\ calls[t][Len(calls[t]) - 1].m = "ax"
        /\ Last(calls[t]).m = "clip"

\* C4: while the cache holds PreferClipboardScript for the application, a call
\* that reaches the text branch invokes the clipboard script only, never
\* accessibility, returns the clipboard script's outcome unchanged, and leaves
\* the application's tag as it is.
C4_ClipboardOnlyWhenPreferred ==
    [][\A t \in Threads :
          (/\ pc[t] \in {"l63", "l72"}
           /\ pc'[t] # pc[t]
           /\ hit'[t] = PreferClipboardScript)
          => /\ ~Invokes(t, "ax")'
             /\ pc'[t] \in {"l72", "done"}
             /\ TagOf(GET_SELECTED_TEXT_METHOD', app_name[t]) = PreferClipboardScript
             /\ pc'[t] = "done" =>
                   /\ Len(ResultsOf(t, "clip")') = 1
                   /\ Last(calls'[t]).m = "clip"
                   /\ ret'[t] = AsCallResult(app_name[t], Last(calls'[t]).r)]_vars

C4_Witness ==
    \E t \in Threads :
        /\ pc[t] = "done"
        /\ hit[t] = PreferClipboardScript
        /\ Last(calls[t]).m = "clip"
        /\ IsOk(ret[t])

\* C5: while the cache holds PreferAccessibility for the application, a call
\* in which accessibility returns non-empty text returns that text as the
\* single element of text, does not invoke the clipboard script, and leaves
\* the tag PreferAccessibility.
C5_CachedAxHitReturnsAlone ==
    [][\A t \in Threads :
          (/\ pc[t] = "l65"
           /\ pc'[t] # pc[t]
           /\ hit[t] = PreferAccessibility
           /\ IsOk(Last(calls'[t]).r)
           /\ Last(calls'[t]).r.val # <<>>)
          => /\ pc'[t] = "done"
             /\ ret'[t] = Ok(SelectedText(FALSE, app_name[t], <<Last(calls'[t]).r.val>>))
             /\ ~Invokes(t, "clip")'
             /\ TagOf(GET_SELECTED_TEXT_METHOD', app_name[t]) = PreferAccessibility]_vars

C5_Witness ==
    \E t \in Threads :
        /\ pc[t] = "done"
        /\ hit[t] = PreferAccessibility
        /\ Last(calls[t]).m = "ax"
        /\ IsOk(ret[t])
        /\ ret[t].val.text # << <<>> >>

\* C6: with PreferAccessibility cached, a call in which accessibility returns
\* empty text falls back to the clipboard script, and whatever the clipboard
\* script returns the entry is still PreferAccessibility after the call.
C6_PreferAxSurvivesEmptyRead ==
    [][\A t \in Threads :
          /\ (/\ pc[t] = "l65"
              /\ pc'[t] # pc[t]
              /\ hit[t] = PreferAccessibility
              /\ Last(calls'[t]).r = Ok(<<>>))
             => /\ pc'[t] = "l72"
                /\ TagOf(GET_SELECTED_TEXT_METHOD', app_name[t]) = PreferAccessibility
          /\ (/\ pc[t] = "l72"
              /\ pc'[t] # pc[t]
              /\ hit[t] = PreferAccessibility)
             => /\ pc'[t] = "done"
                /\ Last(calls'[t]).m = "clip"
                /\ ret'[t] = AsCallResult(app_name[t], Last(calls'[t]).r)
                /\ TagOf(GET_SELECTED_TEXT_METHOD', app_name[t]) = PreferAccessibility]_vars

C6_Witness ==
    \E t \in Threads :
        /\ pc[t] = "done"
        /\ hit[t] = PreferAccessibility
        /\ Len(calls[t]) >= 2
        /\ calls[t][Len(calls[t]) - 1] = [m |-> "ax", r |-> Ok(<<>>)]
        /\ Last(calls[t]).m = "clip"
        /\ IsOk(Last(calls[t]).r)
        /\ Last(calls[t]).r.val # <<>>

\* C7: for an application with no cache entry, after a call returns non-empty
\* text the cache maps the application to the tag of the method that produced
\* it, PreferAccessibility for accessibility and PreferClipboardScript for the
\* clipboard script, and the result is {is_file_paths: false, app_name, [text]}.
C7_UnknownAppRecordsProducer ==
    [][\A t \in Threads :
          (/\ pc[t] \in {"l76", "l84"}
           /\ pc'[t] = "done"
           /\ hit[t] = Miss
           /\ IsOk(ret'[t])
           /\ ret'[t].val.text # << <<>> >>)
          => LET produced == Last(calls'[t])
             IN  /\ IsOk(produced.r)
                 /\ ret'[t] = Ok(SelectedText(FALSE, app_name[t], <<produced.r.val>>))
                 /\ TagOf(GET_SELECTED_TEXT_METHOD', app_name[t]) =
                        (IF produced.m = "ax" THEN PreferAccessibility
                                              ELSE PreferClipboardScript)]_vars

C7_Witness ==
    \E t \in Threads :
        /\ pc[t] = "done"
        /\ hit[t] = Miss
        /\ Last(calls[t]).m = "clip"
        /\ IsOk(ret[t])
        /\ ret[t].val.text # << <<>> >>
        /\ TagOf(GET_SELECTED_TEXT_METHOD, app_name[t]) = PreferClipboardScript

\* the elements of a sequence of strings joined by newlines
RECURSIVE JoinLines(_)
JoinLines(q) ==
    IF Len(q) = 0 THEN <<>>
    ELSE IF Len(q) = 1 THEN q[1]
    ELSE q[1] \o <<NL>> \o JoinLines(Tail(q))

\* q is s split on newline: joining gives s back and no element holds a newline
IsSplitOf(q, s) ==
    /\ Len(q) >= 1
    /\ JoinLines(q) = s
    /\ \A i \in 1..Len(q) : \A j \in 1..Len(q[i]) : q[i][j] # NL

\* C8: in the "Finder" or "Empty Window" context, when file-path extraction
\* returns a non-error result (the empty string included), the call returns at
\* once with is_file_paths = true and text = the result split on newline, with
\* no accessibility or clipboard-script invocation and the cache untouched.
C8_FilePathsReturnImmediately ==
    [][\A t \in Threads :
          (/\ pc[t] = "l41"
           /\ pc'[t] # pc[t]
           /\ app_name[t] \in {"Finder", "Empty Window"})
          => /\ Len(calls'[t]) = 1
             /\ calls'[t][1].m = "file"
             /\ IsOk(calls'[t][1].r) =>
                   /\ pc'[t] = "done"
                   /\ IsOk(ret'[t])
                   /\ ret'[t].val.is_file_paths = TRUE
                   /\ ret'[t].val.app_name = app_name[t]
                   /\ IsSplitOf(ret'[t].val.text, calls'[t][1].r.val)
                   /\ hit'[t] = Unset
                   /\ GET_SELECTED_TEXT_METHOD' = GET_SELECTED_TEXT_METHOD]_vars

C8_Witness ==
    \E t \in Threads :
        /\ pc[t] = "done"
        /\ app_name[t] = "Empty Window"
        /\ IsOk(ret[t])
        /\ ret[t].val.is_file_paths
        /\ Len(ret[t].val.text) = 2
        /\ GET_SELECTED_TEXT_METHOD.lru # <<>>

\* C9 as stated: in the "Empty Window" context, when file-path extraction
\* returns the empty string the call falls through to the text branch and its
\* result is that of the text methods, with is_file_paths = false.
C9_EmptyPathsFallThrough ==
    \A t \in Threads :
        (/\ pc[t] = "done"
         /\ app_name[t] = "Empty Window"
         /\ calls[t] # <<>>
         /\ calls[t][1] = [m |-> "file", r |-> Ok(<<>>)])
        => /\ hit[t] # Unset
           /\ Len(calls[t]) >= 2
           /\ ret[t] = AsCallResult("Empty Window", Last(calls[t]).r)

\* C9 amended: in the "Empty Window" context, when file-path extraction
\* returns the empty string the call returns at once with
\* {is_file_paths: true, app_name: "Empty Window", text: [""]}; accessibility
\* and the clipboard script are not invoked.
C9_EmptyPathsReturnOneEmptyPath ==
    \A t \in Threads :
        (/\ pc[t] \notin {"idle", "l31", "l32", "l35", "l38", "l41"}
         /\ app_name[t] = "Empty Window"
         /\ calls[t][1] = [m |-> "file", r |-> Ok(<<>>)])
        => /\ pc[t] = "done"
           /\ ret[t] = Ok(SelectedText(TRUE, "Empty Window", << <<>> >>))
           /\ Len(calls[t]) = 1
           /\ hit[t] = Unset

C9_Witness ==
    \E t \in Threads :
        /\ pc[t] = "done"
        /\ app_name[t] = "Empty Window"
        /\ calls[t] = <<[m |-> "file", r |-> Ok(<<>>)]>>
        /\ IsOk(ret[t])

\* C10: in the "Finder" or "Empty Window" context, when file-path extraction
\* fails the call does not return that error: it goes on to the text branch,
\* and an error it finally returns comes from a text-extraction method.
C10_FilePathErrorNotSurfaced ==
    \A t \in Threads :
        (/\ calls[t] # <<>>
         /\ calls[t][1].m = "file"
         /\ IsErr(calls[t][1].r))
        => /\ app_name[t] \in {"Finder", "Empty Window"}
           /\ pc[t] \in {"l63", "l65", "l72", "l76", "l84", "done"}
           /\ pc[t] = "done" =>
                 /\ hit[t] # Unset
                 /\ Len(calls[t]) >= 2
                 /\ Last(calls[t]).m \in {"ax", "clip"}
                 /\ IsErr(ret[t]) =>
                       /\ ret[t].err.src \in {"ax", "clip"}
                       /\ ret[t] = Last(calls[t]).r

C10_Witness ==
    \E t \in Threads :
        /\ pc[t] = "done"
        /\ calls[t][1].m = "file"
        /\ IsErr(calls[t][1].r)
        /\ IsErr(ret[t])

\* the lines of a string, counted and cut at its newline positions
NewlinesOf(s) == {j \in 1..Len(s) : s[j] = NL}
LineCount(s) == Cardinality(NewlinesOf(s)) + 1
BreaksOf(s) == {0} \cup NewlinesOf(s) \cup {Len(s) + 1}
NthBreak(s, i) == CHOOSE b \in BreaksOf(s) : Cardinality({c \in BreaksOf(s) : c < b}) = i - 1
NthLine(s, i) == SubSeq(s, NthBreak(s, i) + 1, NthBreak(s, i + 1) - 1)

\* a non-empty output of N newline-joined paths: every line holds a path
IsJoinedPaths(s) == s # <<>> /\ \A i \in 1..LineCount(s) : NthLine(s, i) # <<>>

C12_TextBranchSingleElement ==
    \A t \in Threads :
        (/\ pc[t] = "done"
         /\ IsOk(ret[t])
         /\ ret[t].val.is_file_paths = FALSE)
        => /\ Len(ret[t].val.text) = 1
           /\ hit[t] \in {Miss, PreferAccessibility, PreferClipboardScript}
           /\ ret[t].val.text[1] = Last(calls[t]).r.val

C12_Witness ==
    \E t \in Threads :
        /\ pc[t] = "done"
        /\ hit[t] = Miss
        /\ IsOk(ret[t])
        /\ ret[t].val.is_file_paths = FALSE
        /\ ret[t].val.text = << <<>> >>

\* C13: in every reachable state the cache holds at most 100 entries (and no
\* application twice), however many distinct applications were recorded.
C13_CacheAtMostCapacity ==
    /\ Len(GET_SELECTED_TEXT_METHOD.lru) <= CacheCap
    /\ Cardinality(LruKeys(GET_SELECTED_TEXT_METHOD.lru)) = Len(GET_SELECTED_TEXT_METHOD.lru)

C13_Witness ==
    /\ Len(GET_SELECTED_TEXT_METHOD.lru) = CacheCap
    /\ {"Finder", "Empty Window"} \subseteq LruKeys(GET_SELECTED_TEXT_METHOD.lru)
    /\ "Notes" \notin LruKeys(GET_SELECTED_TEXT_METHOD.lru)

CacheKeys == LruKeys(GET_SELECTED_TEXT_METHOD.lru)

\* thread t's step hands non-empty text of a text method to the caller
ReturnsNonEmptyText(t) ==
    /\ pc[t] \in {"l65", "l72", "l76", "l84"}
    /\ pc'[t] = "done"
    /\ Last(calls'[t]).m \in {"ax", "clip"}
    /\ IsOk(Last(calls'[t]).r)
    /\ Last(calls'[t]).r.val # <<>>

\* C15: an application becomes a key of the cache only in a call for that
\* application that obtained non-empty text from accessibility or the clipboard
\* script; a call for an unknown application that ends with empty text or an
\* error writes nothing, and the application is still unknown afterwards.
C15_KeyOnlyAfterSuccess ==
    [][/\ \A k \in CacheKeys' \ CacheKeys :
              \E t \in Threads : app_name[t] = k /\ ReturnsNonEmptyText(t)
       /\ \A t \in Threads :
              (/\ hit[t] = Miss
               /\ pc[t] \in {"l76", "l84"}
               /\ pc'[t] = "done"
               /\ ~ReturnsNonEmptyText(t))
              => /\ GET_SELECTED_TEXT_METHOD' = GET_SELECTED_TEXT_METHOD
                 /\ app_name[t] \notin CacheKeys']_vars

\* an unknown application's call ended with empty text and it is still unknown
C15_Witness ==
    \E t \in Threads :
        /\ pc[t] = "done"
        /\ hit[t] = Miss
        /\ ret[t] = Ok(SelectedText(FALSE, app_name[t], << <<>> >>))
        /\ app_name[t] \notin CacheKeys
        /\ CacheKeys # {}

\* C14: under concurrent first calls exactly one cache instance is installed:
\* once a call has written an entry, no other call's lazy initialization
\* replaces the cache with a fresh empty one, so no recorded entry is lost.
C14_NoEntryLostToReinit ==
    [][\A t \in Threads :
          (pc[t] = "l32" /\ pc'[t] = "l35") => CacheKeys \subseteq CacheKeys']_vars

\* the guarded section of a call: from the guard of line 35 to the return
InSection(t) == pc[t] \in {"l38", "l41", "l63", "l65", "l72", "l76", "l84"}
AfterGet(t) == pc[t] \in {"l65", "l72", "l76", "l84"}

\* C17: a call's cache lookup and its cache write lie in one exclusive
\* critical section: no other call is in its own section meanwhile, and when
\* the call writes, the cache still answers the lookup as it did.
C17_LookupAndWriteInOneSection ==
    \A t \in Threads :
        /\ InSection(t) => mutex = t
        /\ InSection(t) => \A u \in Threads \ {t} : ~InSection(u)
        /\ AfterGet(t) => TagOf(GET_SELECTED_TEXT_METHOD, app_name[t]) = hit[t]

C17_Witness ==
    \E t \in Threads : \E u \in Threads \ {t} :
        /\ pc[t] = "l84"
        /\ hit[t] = Miss
        /\ CacheKeys # {}
        /\ pc[u] = "l35"
        /\ app_name[u] = ""

\* C20: under fair scheduling, with every collaborator call returning, every
\* call of every thread eventually returns a result or an error: no call
\* deadlocks on the mutex or is blocked forever by another call.
C20_EveryCallReturns ==
    \A t \in Threads : (pc[t] = "l31") ~> (pc[t] = "done" /\ ret[t] # Pending)

\* a call has returned an error, the mutex is free again, another thread waits
C20_Witness ==
    \E t \in Threads : \E u \in Threads \ {t} :
        /\ pc[t] = "done"
        /\ IsErr(ret[t])
        /\ mutex = 0
        /\ pc[u] = "l32"

\* the entries of other applications, in their order
Others(c, k) == SelectSeq(c, LAMBDA e : e.k # k)

\* C16: when the cache is full and a call records an application that is not
\* in it, exactly one entry is evicted, the least recently used one; every
\* text-branch call refreshes its application's recency at the lookup, even
\* if it writes nothing, and a return from the file-path branch refreshes nothing.
C16_EvictsLeastRecentlyUsed ==
    [][\A t \in Threads :
          LET c == GET_SELECTED_TEXT_METHOD.lru
              d == GET_SELECTED_TEXT_METHOD'.lru
              a == app_name[t]
          IN  /\ (pc[t] = "l63" /\ pc'[t] # pc[t]) =>
                     IF a \in LruKeys(c)
                     THEN Head(d).k = a /\ Tail(d) = Others(c, a)
                     ELSE d = c
              /\ (pc[t] = "l41" /\ pc'[t] = "done") => d = c
              /\ (/\ pc[t] \in {"l76", "l84"}
                  /\ ReturnsNonEmptyText(t)
                  /\ Len(c) = CacheCap) =>
                     /\ a \notin LruKeys(c)
                     /\ Head(d).k = a
                     /\ Tail(d) = SubSeq(c, 1, CacheCap - 1)]_vars

\* "Notes", the oldest entry of a full cache, was looked up and so outlived
\* two later insertions, which evicted the entries used least recently
C16_Witness ==
    /\ Len(GET_SELECTED_TEXT_METHOD.lru) = CacheCap
    /\ {"Notes", "Finder", "Empty Window"} \subseteq CacheKeys
    /\ ToString(CacheCap - 2) \notin CacheKeys
    /\ ToString(CacheCap - 3) \in CacheKeys

\* the (application, tag) pairs of the cache, and those a step adds or removes
CacheEntries == {GET_SELECTED_TEXT_METHOD.lru[i] : i \in 1..Len(GET_SELECTED_TEXT_METHOD.lru)}
Added == CacheEntries' \ CacheEntries
Removed == CacheEntries \ CacheEntries'

\* C18: once the cache holds a tag for an application no call changes it to
\* the other tag: the entry keeps its first value for as long as the key is
\* in the cache (until eviction or replacement of the cache); a pair a step
\* adds is never for a key the cache already held.
C18_TagNeverChanges ==
    [][\A e \in Added : e.k \notin CacheKeys]_vars

\* the clipboard script produced the text while the tag was, and still is,
\* PreferAccessibility
C18_Witness ==
    \E t \in Threads :
        /\ pc[t] = "done"
        /\ hit[t] = PreferAccessibility
        /\ Last(calls[t]).m = "clip"
        /\ IsOk(ret[t])
        /\ ret[t].val.text # << <<>> >>
        /\ TagOf(GET_SELECTED_TEXT_METHOD, app_name[t]) = PreferAccessibility
        /\ \E k \in CacheKeys : TagOf(GET_SELECTED_TEXT_METHOD, k) = PreferClipboardScript

====
